---- MODULE Spec2Model ----
(***************************************************************************)
(* State-machine model of the odoo-kopia-snapshot orchestrators:           *)
(*   backup.py                      (run_command, run_postgres_backup,     *)
(*                                   main)                                 *)
(*   src/odoo_kopia_snapshot/restore.py (detect_source_database, main)     *)
(*   src/odoo_kopia_snapshot/list.py    (main)                             *)
(*   src/odoo_kopia_snapshot/utils.py   (run_command, verify_checksum)     *)
(* One process runs per behaviour.  Every external command is recorded in  *)
(* `log` with the outcome the environment chose for it.                    *)
(***************************************************************************)
EXTENDS Integers, Sequences, FiniteSets, TLC

VARIABLES
    prog,                    \* which script runs
    pc,                      \* position in main()
    args,                    \* argparse namespace
    env,                     \* os.environ
    log,                     \* external commands executed so far, in order
    sleeps,                  \* durations passed to time.sleep, in order
    i,                       \* loop variable of the readiness loop
    pg_isready,              \* local of the readiness loop
    fs,                      \* dump working directory: database name -> file state
    unlinked,                \* files removed with Path.unlink
    made,                    \* directories created with Path.mkdir
    exit_code,               \* process exit status (-1 while running)
    raised,                  \* TRUE when the process died of an uncaught exception
    source_database,         \* restore.py local
    target_database,         \* restore.py local
    checksum,                \* outcome of verify_checksum
    postgres_dump_to_remove, \* backup.py local
    extra_args,              \* generate_*.py local
    manifest                 \* the manifest dict a generator builds and prints

vars == <<prog, pc, args, env, log, sleeps, i, pg_isready, fs, unlinked, made,
          exit_code, raised, source_database, target_database, checksum,
          postgres_dump_to_remove, extra_args, manifest>>

----------------------------------------------------------------------------
(* Bounds of the model. *)

\* longest --postgres-backup-dir given to a backup run, in path components
MaxPathLen == 2

----------------------------------------------------------------------------
(* Python values. *)

NONE == "None"

Truthy(v) == v # NONE /\ v # ""

\* Python's `a or b`
PyOr(a, b) == IF Truthy(a) THEN a ELSE b

\* range(1, 10) of the readiness loops
BackupRangeStop == 10
RestoreRangeStop == 10

range(start, stop) == start .. (stop - 1)

----------------------------------------------------------------------------
(* pathlib: an absolute path is the sequence of its components. *)

Front(s) == SubSeq(s, 1, Len(s) - 1)

Last(s) == s[Len(s)]

RECURSIVE resolve(_)
\* Path.resolve(): ".." steps to the parent, the parent of the root is the root
resolve(p) ==
    IF p = <<>> THEN <<>>
    ELSE LET r == resolve(Front(p))
         IN  IF Last(p) = ".."
             THEN (IF r = <<>> THEN <<>> ELSE Front(r))
             ELSE Append(r, Last(p))

\* PurePath.is_relative_to(): other is a leading run of self's components
is_relative_to(self, other) ==
    /\ Len(other) <= Len(self)
    /\ SubSeq(self, 1, Len(other)) = other

----------------------------------------------------------------------------
(* The environment and the inputs of a run. *)

PGVars == {"PGHOST", "PGPORT", "PGUSER", "PGPASSWORD", "PGDATABASE"}

EnvVars == PGVars \cup {"KOPIA_PASSWORD"}

DbNames == {"db1", "db2"}

\* every variable set; PGDATABASE names the database db1
FullEnv == [k \in EnvVars |-> IF k = "PGDATABASE" THEN "db1" ELSE "v"]

\* the full environment, or one variable unset or empty
EnvChoices ==
    {FullEnv} \cup
    {[FullEnv EXCEPT ![k] = m] : k \in EnvVars, m \in {NONE, ""}}

\* os.environ.get(key)
environ_get(key) == env[key]

Components == {"o", "d", ".."}

RECURSIVE PathsUpTo(_)
PathsUpTo(n) ==
    IF n = 0 THEN {<<>>}
    ELSE LET shorter == PathsUpTo(n - 1)
         IN  shorter \cup {Append(p, c) : p \in shorter, c \in Components}

\* outcome of one subprocess.run: exit status 0, a non-zero exit status, or
\* the program could not be executed at all (OSError)
Outcomes == {"exit0", "exitN", "oserror"}

\* state of <name>.dump in the working directory: absent, present without a
\* .sha256 sidecar, present with a sidecar that matches / does not match
FileStates == {"absent", "plain", "match", "mismatch"}

EmptyDir == [n \in DbNames |-> "absent"]

----------------------------------------------------------------------------
(* Command runners. *)

backup_run_command_Swallow(check, rc) ==
    IF rc = "exit0" THEN "True"
    ELSE IF rc = "exitN" THEN "False"
    ELSE "raise"

\* backup.py run_command, lines 20-36: True | False | raise
backup_run_command(check, rc) ==
    IF rc = "exit0" THEN "True"
    ELSE IF rc = "exitN"
         THEN (IF check THEN "raise" ELSE "False")
         ELSE "raise"

----------------------------------------------------------------------------
(* Shared step shapes. *)

\* one subprocess.run of command c: outcome rc, path argument p, name
\* argument n, further flags f as <<flag, value>> pairs
IssueFlags(c, rc, p, n, f) ==
    log' = Append(log, [cmd |-> c, rc |-> rc, path |-> p, name |-> n, flags |-> f])

Issue(c, rc, p, n) == IssueFlags(c, rc, p, n, <<>>)

Goto(next) == pc' = next /\ UNCHANGED <<exit_code, raised>>

\* sys.exit(code)
sys_exit(code) == pc' = "exit" /\ exit_code' = code /\ raised' = FALSE

\* an exception nobody catches: traceback, interpreter exits with status 1
Uncaught == pc' = "exit" /\ exit_code' = 1 /\ raised' = TRUE

----------------------------------------------------------------------------
(* backup.py *)

BackupArgs ==
    [no_postgres_backup : BOOLEAN,
     postgres_backup : {TRUE},
     no_postgres_backup_cleanup : BOOLEAN,
     postgres_backup_cleanup : {TRUE},
     no_kopia_maintenance : BOOLEAN,
     postgres_backup_dir : PathsUpTo(MaxPathLen),
     odoo_dir : {<<"o">>, <<"o", "d">>}]

InitBackup ==
    /\ prog = "backup"
    /\ pc = "b_flags"
    /\ args \in BackupArgs
    /\ env \in EnvChoices
    /\ log = <<>>
    /\ sleeps = <<>>
    /\ i = 1
    /\ pg_isready = FALSE
    /\ fs = EmptyDir
    /\ unlinked = {}
    /\ made = {}
    /\ extra_args = NONE
    /\ manifest = NONE
    /\ exit_code = -1
    /\ raised = FALSE
    /\ source_database = NONE
    /\ target_database = NONE
    /\ checksum = "none"
    /\ postgres_dump_to_remove = NONE

\* main, lines 230-239: the --no-* flags, then the dump step or straight to kopia
B_Flags ==
    /\ pc = "b_flags"
    /\ LET a1 == IF args.no_postgres_backup
                 THEN [args EXCEPT !.postgres_backup = FALSE] ELSE args
           a2 == IF a1.no_postgres_backup_cleanup
                 THEN [a1 EXCEPT !.postgres_backup_cleanup = FALSE] ELSE a1
       IN  /\ args' = a2
           /\ Goto(IF a2.postgres_backup THEN "b_dircheck" ELSE "b_password")
    /\ UNCHANGED <<prog, extra_args, manifest,
                   made, env, log, sleeps, i, pg_isready, fs, unlinked,
                   source_database, target_database, checksum,
                   postgres_dump_to_remove>>

\* run_postgres_backup: the resolved dump directory
postgres_backup_directory == resolve(args.postgres_backup_dir)

B_DirCheck_NoCheck ==
    /\ pc = "b_dircheck"
    /\ made' = made \cup {postgres_backup_directory}
    /\ Goto("b_envcheck")
    /\ UNCHANGED <<prog, extra_args, manifest,
                   args, env, log, sleeps, i, pg_isready, fs, unlinked,
                   source_database, target_database, checksum,
                   postgres_dump_to_remove>>

\* run_postgres_backup, lines 40-51: create the dump directory; it must be
\* inside odoo_dir
B_DirCheck ==
    /\ pc = "b_dircheck"
    /\ IF ~is_relative_to(postgres_backup_directory, resolve(args.odoo_dir))
       THEN sys_exit(1)
       ELSE Goto("b_envcheck")
    /\ made' = made \cup {postgres_backup_directory}
    /\ UNCHANGED <<prog, extra_args, manifest,
                   args, env, log, sleeps, i, pg_isready, fs, unlinked,
                   source_database, target_database, checksum,
                   postgres_dump_to_remove>>

BACKUP_REQUIRED_PG_ENVIRON ==
    {"PGHOST", "PGPORT", "PGUSER", "PGPASSWORD", "PGDATABASE"}

B_EnvCheck_IsSet ==
    /\ pc = "b_envcheck"
    /\ IF ~(\A key \in BACKUP_REQUIRED_PG_ENVIRON : environ_get(key) # NONE)
       THEN sys_exit(1)
       ELSE Goto("b_isready")
    /\ i' = 1
    /\ pg_isready' = FALSE
    /\ UNCHANGED <<prog, extra_args, manifest,
                   made, args, env, log, sleeps, fs, unlinked,
                   source_database, target_database, checksum,
                   postgres_dump_to_remove>>

\* run_postgres_backup, lines 53-68: all five PG* variables are set and non-empty
B_EnvCheck ==
    /\ pc = "b_envcheck"
    /\ IF ~(\A key \in BACKUP_REQUIRED_PG_ENVIRON : Truthy(environ_get(key)))
       THEN sys_exit(1)
       ELSE Goto("b_isready")
    /\ i' = 1
    /\ pg_isready' = FALSE
    /\ UNCHANGED <<prog, extra_args, manifest,
                   made, args, env, log, sleeps, fs, unlinked,
                   source_database, target_database, checksum,
                   postgres_dump_to_remove>>

\* where the for loop goes after iteration n without a break
AfterIteration(n, stop, loop, after) ==
    IF n + 1 \in range(1, stop) THEN loop ELSE after

B_PgIsReady_FlatDelay ==
    /\ pc = "b_isready"
    /\ i \in range(1, BackupRangeStop)
    /\ \E rc \in Outcomes :
         /\ Issue("pg_isready", rc, <<>>, "")
         /\ LET r == backup_run_command(TRUE, rc)
            IN  IF r = "True"
                THEN /\ pg_isready' = TRUE
                     /\ Goto("b_readycheck")
                     /\ UNCHANGED <<sleeps, i>>
                ELSE IF rc = "exitN"
                THEN /\ sleeps' = Append(sleeps, 1)
                     /\ i' = i + 1
                     /\ Goto(AfterIteration(i, BackupRangeStop,
                                            "b_isready", "b_readycheck"))
                     /\ UNCHANGED pg_isready
                ELSE /\ Uncaught
                     /\ UNCHANGED <<sleeps, i, pg_isready>>
    /\ UNCHANGED <<prog, extra_args, manifest,
                   made, args, env, fs, unlinked, source_database,
                   target_database, checksum, postgres_dump_to_remove>>

\* run_postgres_backup, lines 69-80: one iteration of the readiness loop
B_PgIsReady ==
    /\ pc = "b_isready"
    /\ i \in range(1, BackupRangeStop)
    /\ \E rc \in Outcomes :
         /\ Issue("pg_isready", rc, <<>>, "")
         /\ LET r == backup_run_command(TRUE, rc)
            IN  IF r = "True"
                THEN /\ pg_isready' = TRUE
                     /\ Goto("b_readycheck")
                     /\ UNCHANGED <<sleeps, i>>
                ELSE IF rc = "exitN"
                THEN \* except subprocess.CalledProcessError: time.sleep(i)
                     /\ sleeps' = Append(sleeps, i)
                     /\ i' = i + 1
                     /\ Goto(AfterIteration(i, BackupRangeStop,
                                            "b_isready", "b_readycheck"))
                     /\ UNCHANGED pg_isready
                ELSE \* except Exception: raise
                     /\ Uncaught
                     /\ UNCHANGED <<sleeps, i, pg_isready>>
    /\ UNCHANGED <<prog, extra_args, manifest,
                   made, args, env, fs, unlinked, source_database,
                   target_database, checksum, postgres_dump_to_remove>>

B_ReadyCheck_Proceed ==
    /\ pc = "b_readycheck"
    /\ Goto("b_pgdump")
    /\ UNCHANGED <<prog, extra_args, manifest,
                   made, args, env, log, sleeps, i, pg_isready, fs, unlinked,
                   source_database, target_database, checksum,
                   postgres_dump_to_remove>>

\* run_postgres_backup, lines 82-84
B_ReadyCheck ==
    /\ pc = "b_readycheck"
    /\ IF ~pg_isready THEN sys_exit(1) ELSE Goto("b_pgdump")
    /\ UNCHANGED <<prog, extra_args, manifest,
                   made, args, env, log, sleeps, i, pg_isready, fs, unlinked,
                   source_database, target_database, checksum,
                   postgres_dump_to_remove>>

\* run_postgres_backup, lines 86-103, and its return into main line 239:
\* pg_dump writes <PGDATABASE>.dump; no checksum sidecar is written
B_PgDump ==
    /\ pc = "b_pgdump"
    /\ \E rc \in Outcomes :
         /\ Issue("pg_dump", rc, postgres_backup_directory,
                  environ_get("PGDATABASE"))
         /\ IF backup_run_command(TRUE, rc) = "raise"
            THEN /\ Uncaught
                 /\ UNCHANGED <<fs, postgres_dump_to_remove>>
            ELSE /\ fs' = [fs EXCEPT ![environ_get("PGDATABASE")] = "plain"]
                 /\ postgres_dump_to_remove' = environ_get("PGDATABASE")
                 /\ Goto("b_password")
    /\ UNCHANGED <<prog, extra_args, manifest,
                   made, args, env, sleeps, i, pg_isready, unlinked,
                   source_database, target_database, checksum>>

B_Password_OnlyUnset ==
    /\ pc = "b_password"
    /\ env' = IF environ_get("KOPIA_PASSWORD") = NONE
              THEN [env EXCEPT !["KOPIA_PASSWORD"] = "static-passw0rd"]
              ELSE env
    /\ Goto("b_connect")
    /\ UNCHANGED <<prog, extra_args, manifest,
                   made, args, log, sleeps, i, pg_isready, fs, unlinked,
                   source_database, target_database, checksum,
                   postgres_dump_to_remove>>

\* main, lines 248-253: the KOPIA_PASSWORD fallback
B_Password ==
    /\ pc = "b_password"
    /\ env' = IF ~Truthy(environ_get("KOPIA_PASSWORD"))
              THEN [env EXCEPT !["KOPIA_PASSWORD"] = "static-passw0rd"]
              ELSE env
    /\ Goto("b_connect")
    /\ UNCHANGED <<prog, extra_args, manifest,
                   made, args, log, sleeps, i, pg_isready, fs, unlinked,
                   source_database, target_database, checksum,
                   postgres_dump_to_remove>>

BackupFrame ==
    UNCHANGED <<prog, extra_args, manifest,
                made, args, env, sleeps, i, pg_isready, fs, unlinked,
                source_database, target_database, checksum,
                postgres_dump_to_remove>>

\* a run_command(cmd) call of backup.py main with the default check=True
BackupMustSucceed(here, c, p, next) ==
    /\ pc = here
    /\ \E rc \in Outcomes :
         /\ Issue(c, rc, p, "")
         /\ IF backup_run_command(TRUE, rc) = "raise"
            THEN Uncaught
            ELSE Goto(next)
    /\ BackupFrame

B_Connect_Fatal ==
    BackupMustSucceed("b_connect", "repository connect", <<>>, "b_policy_global")

\* main, lines 271-283: repository connect with check=False
B_Connect ==
    /\ pc = "b_connect"
    /\ \E rc \in Outcomes :
         /\ Issue("repository connect", rc, <<>>, "")
         /\ LET r == backup_run_command(FALSE, rc)
            IN  IF r = "raise" THEN Uncaught
                ELSE IF r = "False" THEN Goto("b_create")
                ELSE Goto("b_policy_global")
    /\ BackupFrame

\* main, lines 284-294: repository create
B_Create ==
    BackupMustSucceed("b_create", "repository create", <<>>, "b_policy_global")

\* main, lines 296-315: global retention policy
B_PolicyGlobal ==
    BackupMustSucceed("b_policy_global", "policy set global", <<>>, "b_policy_db")

\* main, lines 317-326: no compression for the dump directory
B_PolicyDb ==
    BackupMustSucceed("b_policy_db", "policy set dump-dir",
                      resolve(args.postgres_backup_dir), "b_snapshot")

\* main, lines 328-350: snapshot create, then maintenance unless skipped
B_Snapshot ==
    BackupMustSucceed("b_snapshot", "snapshot create", args.odoo_dir,
                      IF ~args.no_kopia_maintenance
                      THEN "b_maintenance" ELSE "b_stats")

\* main, lines 342-350: maintenance run --full
B_Maintenance ==
    BackupMustSucceed("b_maintenance", "maintenance run", <<>>, "b_stats")

\* main, lines 354-357: content stats
B_Stats ==
    BackupMustSucceed("b_stats", "content stats", <<>>, "b_disconnect")

\* main, lines 359-361: repository disconnect
B_Disconnect ==
    BackupMustSucceed("b_disconnect", "repository disconnect", <<>>, "b_cleanup")

B_Cleanup_Always ==
    /\ pc = "b_cleanup"
    /\ IF /\ postgres_dump_to_remove # NONE
          /\ fs[postgres_dump_to_remove] # "absent"
       THEN /\ unlinked' = unlinked \cup {<<postgres_dump_to_remove, "dump">>}
            /\ fs' = [fs EXCEPT ![postgres_dump_to_remove] = "absent"]
       ELSE UNCHANGED <<unlinked, fs>>
    /\ sys_exit(0)
    /\ UNCHANGED <<prog, extra_args, manifest,
                   made, args, env, log, sleeps, i, pg_isready,
                   source_database, target_database, checksum,
                   postgres_dump_to_remove>>

\* main, lines 363-373: remove the dump file, exit 0
B_Cleanup ==
    /\ pc = "b_cleanup"
    /\ IF /\ args.postgres_backup_cleanup
          /\ postgres_dump_to_remove # NONE
          /\ fs[postgres_dump_to_remove] # "absent"
       THEN /\ unlinked' = unlinked \cup {<<postgres_dump_to_remove, "dump">>}
            /\ fs' = [fs EXCEPT ![postgres_dump_to_remove] = "absent"]
       ELSE UNCHANGED <<unlinked, fs>>
    /\ sys_exit(0)
    /\ UNCHANGED <<prog, extra_args, manifest,
                   made, args, env, log, sleeps, i, pg_isready,
                   source_database, target_database, checksum,
                   postgres_dump_to_remove>>

BackupNext ==
    \/ B_Flags
    \/ B_DirCheck
    \/ B_EnvCheck
    \/ B_PgIsReady
    \/ B_ReadyCheck
    \/ B_PgDump
    \/ B_Password
    \/ B_Connect
    \/ B_Create
    \/ B_PolicyGlobal
    \/ B_PolicyDb
    \/ B_Snapshot
    \/ B_Maintenance
    \/ B_Stats
    \/ B_Disconnect
    \/ B_Cleanup

----------------------------------------------------------------------------
(* src/odoo_kopia_snapshot/utils.py *)

utils_run_command_RaiseAlways(check, rc) ==
    IF rc = "exit0" THEN "ok" ELSE "raise"

\* utils.py run_command: "ok" / "failed" are the CompletedProcess returned
\* with returncode 0 / non-zero; "raise" is an exception leaving the call
utils_run_command(check, rc) ==
    IF rc = "exit0" THEN "ok"
    ELSE IF rc = "exitN"
         THEN (IF check THEN "raise" ELSE "failed")
         ELSE "raise"

\* what `sha256sum -c <dump>.sha256` answers for a dump in state st
sha256sum_c(st) == IF st = "match" THEN "exit0" ELSE "exitN"

verify_checksum_LogOnly(st) ==
    IF st \notin {"match", "mismatch"} THEN "skipped"
    ELSE IF sha256sum_c(st) = "exit0" THEN "passed"
    ELSE "failed"

\* utils.py verify_checksum, lines 60-78, for a dump in state st: "skipped"
\* (no sidecar: warn and return), "passed" (return) or "exit1" (sys.exit(1))
verify_checksum(st) ==
    IF st \notin {"match", "mismatch"} THEN "skipped"
    ELSE IF sha256sum_c(st) = "exit0" THEN "passed"
    ELSE "exit1"

----------------------------------------------------------------------------
(* src/odoo_kopia_snapshot/restore.py *)

\* an optional path: <<>> is None, <<p>> is Path(p)
NoPath == <<>>

SomePath(p) == <<p>>

RestoreArgs ==
    [postgres_restore : BOOLEAN,
     no_postgres_restore : BOOLEAN,
     postgres_backup_cleanup : {TRUE},
     no_postgres_backup_cleanup : BOOLEAN,
     filestore_restore : BOOLEAN,
     no_filestore_restore : BOOLEAN,
     download_only : BOOLEAN,
     download_path : {NoPath, SomePath(<<"dl">>), SomePath(<<"o", "dl", "..">>)},
     postgres_backup_dir : {<<"o", "d">>},
     odoo_dir : {<<"o">>},
     source_database : {NONE, "db1"},
     target_database : {NONE, "t"}]

InitRestore ==
    /\ prog = "restore"
    /\ pc = "r_flags"
    /\ args \in RestoreArgs
    /\ env \in EnvChoices
    /\ log = <<>>
    /\ sleeps = <<>>
    /\ i = 1
    /\ pg_isready = FALSE
    /\ fs = EmptyDir
    /\ unlinked = {}
    /\ made = {}
    /\ extra_args = NONE
    /\ manifest = NONE
    /\ exit_code = -1
    /\ raised = FALSE
    /\ source_database = NONE
    /\ target_database = NONE
    /\ checksum = "none"
    /\ postgres_dump_to_remove = NONE

RestoreFrame ==
    UNCHANGED <<prog, extra_args, manifest,
                made, args, env, sleeps, i, pg_isready, fs, unlinked,
                source_database, target_database, checksum,
                postgres_dump_to_remove>>

\* the namespace after the --no-* flags, lines 174-180
AfterNoFlags(a) ==
    LET a1 == IF a.no_postgres_restore
              THEN [a EXCEPT !.postgres_restore = FALSE] ELSE a
        a2 == IF a1.no_postgres_backup_cleanup
              THEN [a1 EXCEPT !.postgres_backup_cleanup = FALSE] ELSE a1
    IN  IF a2.no_filestore_restore
        THEN [a2 EXCEPT !.filestore_restore = FALSE] ELSE a2

R_Flags_NoPathCheck ==
    /\ pc = "r_flags"
    /\ LET a == AfterNoFlags(args)
       IN  IF a.download_only
           THEN IF a.download_path = NoPath
                THEN /\ args' = [a EXCEPT !.postgres_backup_cleanup = FALSE]
                     /\ Goto("r_target")
                ELSE /\ args' = [a EXCEPT !.postgres_backup_cleanup = FALSE,
                                          !.postgres_backup_dir = a.download_path[1],
                                          !.odoo_dir = a.download_path[1]]
                     /\ Goto("r_target")
           ELSE /\ args' = a
                /\ Goto("r_target")
    /\ UNCHANGED <<prog, extra_args, manifest,
                   made, env, log, sleeps, i, pg_isready, fs, unlinked,
                   source_database, target_database, checksum,
                   postgres_dump_to_remove>>

R_Flags_KeepOdooDir ==
    /\ pc = "r_flags"
    /\ LET a == AfterNoFlags(args)
       IN  IF a.download_only
           THEN IF a.download_path = NoPath
                THEN /\ args' = [a EXCEPT !.postgres_backup_cleanup = FALSE]
                     /\ sys_exit(2)
                ELSE /\ args' = [a EXCEPT !.postgres_backup_cleanup = FALSE,
                                          !.postgres_backup_dir = a.download_path[1]]
                     /\ Goto("r_target")
           ELSE /\ args' = a
                /\ Goto("r_target")
    /\ UNCHANGED <<prog, extra_args, manifest,
                   made, env, log, sleeps, i, pg_isready, fs, unlinked,
                   source_database, target_database, checksum,
                   postgres_dump_to_remove>>

\* main, lines 174-187: the --no-* flags and download-only mode
R_Flags ==
    /\ pc = "r_flags"
    /\ LET a == AfterNoFlags(args)
       IN  IF a.download_only
           THEN IF a.download_path = NoPath
                THEN \* parser.error(): usage message, exit status 2
                     /\ args' = [a EXCEPT !.postgres_backup_cleanup = FALSE]
                     /\ sys_exit(2)
                ELSE /\ args' = [a EXCEPT !.postgres_backup_cleanup = FALSE,
                                          !.postgres_backup_dir = a.download_path[1],
                                          !.odoo_dir = a.download_path[1]]
                     /\ Goto("r_target")
           ELSE /\ args' = a
                /\ Goto("r_target")
    /\ UNCHANGED <<prog, extra_args, manifest,
                   made, env, log, sleeps, i, pg_isready, fs, unlinked,
                   source_database, target_database, checksum,
                   postgres_dump_to_remove>>

\* main, lines 189-196: resolve the target database
R_Target ==
    /\ pc = "r_target"
    /\ target_database' = PyOr(args.target_database, environ_get("PGDATABASE"))
    /\ IF args.postgres_restore /\ ~args.download_only /\ ~Truthy(target_database')
       THEN sys_exit(1)
       ELSE Goto("r_envcheck")
    /\ UNCHANGED <<prog, extra_args, manifest,
                   made, args, env, log, sleeps, i, pg_isready, fs, unlinked,
                   source_database, checksum, postgres_dump_to_remove>>

RESTORE_REQUIRED_PG_ENVIRON == {"PGHOST", "PGPORT", "PGUSER", "PGPASSWORD"}

R_EnvCheck_Always ==
    /\ pc = "r_envcheck"
    /\ IF ~(\A key \in RESTORE_REQUIRED_PG_ENVIRON : Truthy(environ_get(key)))
       THEN sys_exit(1)
       ELSE Goto("r_password")
    /\ UNCHANGED <<prog, extra_args, manifest,
                   made, args, env, log, sleeps, i, pg_isready, fs, unlinked,
                   source_database, target_database, checksum,
                   postgres_dump_to_remove>>

\* main, lines 198-205: the four PG* connection variables
R_EnvCheck ==
    /\ pc = "r_envcheck"
    /\ IF /\ args.postgres_restore /\ ~args.download_only
          /\ ~(\A key \in RESTORE_REQUIRED_PG_ENVIRON : Truthy(environ_get(key)))
       THEN sys_exit(1)
       ELSE Goto("r_password")
    /\ UNCHANGED <<prog, extra_args, manifest,
                   made, args, env, log, sleeps, i, pg_isready, fs, unlinked,
                   source_database, target_database, checksum,
                   postgres_dump_to_remove>>

\* main, lines 214-220: the KOPIA_PASSWORD fallback
R_Password ==
    /\ pc = "r_password"
    /\ env' = IF ~Truthy(environ_get("KOPIA_PASSWORD"))
              THEN [env EXCEPT !["KOPIA_PASSWORD"] = "static-passw0rd"]
              ELSE env
    /\ Goto("r_connect")
    /\ UNCHANGED <<prog, extra_args, manifest,
                   made, args, log, sleeps, i, pg_isready, fs, unlinked,
                   source_database, target_database, checksum,
                   postgres_dump_to_remove>>

R_Connect_Tolerant ==
    /\ pc = "r_connect"
    /\ \E rc \in Outcomes :
         /\ IssueFlags("repository connect", rc, <<>>, "", <<(<<"--readonly", "">>)>>)
         /\ LET r == utils_run_command(FALSE, rc)
            IN  IF r = "raise" THEN Uncaught
                ELSE Goto("r_stage_db")
    /\ RestoreFrame

\* main, lines 235-251: repository connect --readonly with check=False
R_Connect ==
    /\ pc = "r_connect"
    /\ \E rc \in Outcomes :
         /\ IssueFlags("repository connect", rc, <<>>, "", <<(<<"--readonly", "">>)>>)
         /\ LET r == utils_run_command(FALSE, rc)
            IN  IF r = "raise" THEN Uncaught
                ELSE IF r = "failed" THEN sys_exit(1)
                ELSE Goto("r_stage_db")
    /\ RestoreFrame

\* a run_command(cmd) call of restore.py main with the default check=True
RestoreMustSucceed(c, rc, p, n, next) ==
    /\ Issue(c, rc, p, n)
    /\ IF utils_run_command(TRUE, rc) = "raise"
       THEN Uncaught
       ELSE Goto(next)

\* what the working directory may hold once `snapshot restore` has written
\* the snapshot's database-backup sub-path into it: db1.dump in any state,
\* db2.dump absent or present without a sidecar
DirChoices ==
    {d \in [DbNames -> FileStates] : d["db2"] \in {"absent", "plain"}}

\* main, lines 256-269: create the working directory and restore
\* <snapshot>/database-backup into it
R_RestoreDb ==
    /\ pc = "r_stage_db"
    /\ args.postgres_restore
    /\ \E rc \in Outcomes :
         /\ RestoreMustSucceed("snapshot restore database-backup", rc,
                               resolve(args.postgres_backup_dir), "", "r_detect")
         /\ IF rc = "exit0"
            THEN fs' \in DirChoices
            ELSE UNCHANGED fs
    /\ made' = made \cup {resolve(args.postgres_backup_dir)}
    /\ UNCHANGED <<prog, extra_args, manifest,
                   args, env, sleeps, i, pg_isready, unlinked,
                   source_database, target_database, checksum,
                   postgres_dump_to_remove>>

\* main, lines 328-330: no database stage
R_SkipDb ==
    /\ pc = "r_stage_db"
    /\ ~args.postgres_restore
    /\ source_database' = args.source_database
    /\ Goto("r_filestore")
    /\ UNCHANGED <<prog, extra_args, manifest,
                   made, args, env, log, sleeps, i, pg_isready, fs, unlinked,
                   target_database, checksum, postgres_dump_to_remove>>

\* backup_dir.glob("*.dump")
dump_files == {n \in DbNames : fs[n] # "absent"}

R_Detect_FirstOfMany ==
    /\ pc = "r_detect"
    /\ IF Truthy(args.source_database)
       THEN /\ source_database' = args.source_database
            /\ Goto("r_dump_exists")
       ELSE IF Cardinality(dump_files) = 0
       THEN /\ sys_exit(1)
            /\ UNCHANGED source_database
       ELSE /\ source_database' = CHOOSE n \in dump_files : TRUE
            /\ Goto("r_dump_exists")
    /\ UNCHANGED <<prog, extra_args, manifest,
                   made, args, env, log, sleeps, i, pg_isready, fs, unlinked,
                   target_database, checksum, postgres_dump_to_remove>>

\* detect_source_database, lines 17-29, and its use in main lines 271-275
R_Detect ==
    /\ pc = "r_detect"
    /\ IF Truthy(args.source_database)
       THEN /\ source_database' = args.source_database
            /\ Goto("r_dump_exists")
       ELSE IF Cardinality(dump_files) = 0
       THEN /\ sys_exit(1)
            /\ UNCHANGED source_database
       ELSE IF Cardinality(dump_files) > 1
       THEN /\ sys_exit(1)
            /\ UNCHANGED source_database
       ELSE \* dump_files[0].stem
            /\ source_database' = CHOOSE n \in dump_files : TRUE
            /\ Goto("r_dump_exists")
    /\ UNCHANGED <<prog, extra_args, manifest,
                   made, args, env, log, sleeps, i, pg_isready, fs, unlinked,
                   target_database, checksum, postgres_dump_to_remove>>

R_DumpExists_Skip ==
    /\ pc = "r_dump_exists"
    /\ Goto("r_verify")
    /\ UNCHANGED <<prog, extra_args, manifest,
                   made, args, env, log, sleeps, i, pg_isready, fs, unlinked,
                   source_database, target_database, checksum,
                   postgres_dump_to_remove>>

\* main, lines 277-280: the dump file <source_database>.dump must exist
R_DumpExists ==
    /\ pc = "r_dump_exists"
    /\ IF fs[source_database] = "absent"
       THEN sys_exit(1)
       ELSE Goto("r_verify")
    /\ UNCHANGED <<prog, extra_args, manifest,
                   made, args, env, log, sleeps, i, pg_isready, fs, unlinked,
                   source_database, target_database, checksum,
                   postgres_dump_to_remove>>

\* main, lines 282-288 and 326-327: verify the checksum, then the live
\* restore unless download-only
R_Verify ==
    /\ pc = "r_verify"
    /\ LET v == verify_checksum(fs[source_database])
       IN  /\ checksum' = v
           /\ IF v = "skipped"
              THEN UNCHANGED log
              ELSE Issue("sha256sum -c", sha256sum_c(fs[source_database]),
                         <<>>, source_database)
           /\ IF v = "exit1"
              THEN sys_exit(1)
              ELSE Goto(IF ~args.download_only THEN "r_isready" ELSE "r_filestore")
    /\ i' = 1
    /\ pg_isready' = FALSE
    /\ UNCHANGED <<prog, extra_args, manifest,
                   made, args, env, sleeps, fs, unlinked, source_database,
                   target_database, postgres_dump_to_remove>>

\* main, lines 289-301: one iteration of the readiness loop
R_PgIsReady ==
    /\ pc = "r_isready"
    /\ i \in range(1, RestoreRangeStop)
    /\ \E rc \in Outcomes :
         /\ Issue("pg_isready", rc, <<>>, "")
         /\ LET r == utils_run_command(TRUE, rc)
            IN  IF r = "ok"
                THEN /\ pg_isready' = TRUE
                     /\ Goto("r_readycheck")
                     /\ UNCHANGED <<sleeps, i>>
                ELSE IF rc = "exitN"
                THEN \* except subprocess.CalledProcessError: time.sleep(i)
                     /\ sleeps' = Append(sleeps, i)
                     /\ i' = i + 1
                     /\ Goto(AfterIteration(i, RestoreRangeStop,
                                            "r_isready", "r_readycheck"))
                     /\ UNCHANGED pg_isready
                ELSE \* except Exception: raise
                     /\ Uncaught
                     /\ UNCHANGED <<sleeps, i, pg_isready>>
    /\ UNCHANGED <<prog, extra_args, manifest,
                   made, args, env, fs, unlinked, source_database,
                   target_database, checksum, postgres_dump_to_remove>>

R_ReadyCheck_Disconnect ==
    /\ pc = "r_readycheck"
    /\ IF ~pg_isready THEN Goto("r_disconnect") ELSE Goto("r_pgrestore")
    /\ UNCHANGED <<prog, extra_args, manifest,
                   made, args, env, log, sleeps, i, pg_isready, fs, unlinked,
                   source_database, target_database, checksum,
                   postgres_dump_to_remove>>

\* main, lines 303-305
R_ReadyCheck ==
    /\ pc = "r_readycheck"
    /\ IF ~pg_isready THEN sys_exit(1) ELSE Goto("r_pgrestore")
    /\ UNCHANGED <<prog, extra_args, manifest,
                   made, args, env, log, sleeps, i, pg_isready, fs, unlinked,
                   source_database, target_database, checksum,
                   postgres_dump_to_remove>>

\* main, lines 307-318: pg_restore of the dump file into the target database
R_PgRestore ==
    /\ pc = "r_pgrestore"
    /\ \E rc \in Outcomes :
         RestoreMustSucceed("pg_restore", rc, <<>>, source_database, "r_cleanup")
    /\ RestoreFrame

R_Cleanup_DumpOnly ==
    /\ pc = "r_cleanup"
    /\ IF args.postgres_backup_cleanup
       THEN /\ unlinked' = unlinked \cup {<<source_database, "dump">>}
            /\ fs' = [fs EXCEPT ![source_database] = "absent"]
       ELSE UNCHANGED <<unlinked, fs>>
    /\ Goto("r_filestore")
    /\ UNCHANGED <<prog, extra_args, manifest,
                   made, args, env, log, sleeps, i, pg_isready,
                   source_database, target_database, checksum,
                   postgres_dump_to_remove>>

\* main, lines 320-325: remove the dump file and its sidecar
R_Cleanup ==
    /\ pc = "r_cleanup"
    /\ IF args.postgres_backup_cleanup
       THEN /\ unlinked' = unlinked \cup {<<source_database, "dump">>,
                                          <<source_database, "dump.sha256">>}
            /\ fs' = [fs EXCEPT ![source_database] = "absent"]
       ELSE UNCHANGED <<unlinked, fs>>
    /\ Goto("r_filestore")
    /\ UNCHANGED <<prog, extra_args, manifest,
                   made, args, env, log, sleeps, i, pg_isready,
                   source_database, target_database, checksum,
                   postgres_dump_to_remove>>

\* main, lines 332-339: the file-store stage needs the source database name
R_FilestoreCheck ==
    /\ pc = "r_filestore"
    /\ IF ~args.filestore_restore THEN Goto("r_disconnect")
       ELSE IF ~Truthy(source_database) THEN sys_exit(1)
       ELSE Goto("r_filestore_restore")
    /\ UNCHANGED <<prog, extra_args, manifest,
                   made, args, env, log, sleeps, i, pg_isready, fs, unlinked,
                   source_database, target_database, checksum,
                   postgres_dump_to_remove>>

target_path_SourceFirst ==
    resolve(args.odoo_dir) \o <<"filestore", PyOr(source_database, target_database)>>

\* main, lines 341-343: <odoo_dir>/filestore/<target or source database>
target_path ==
    resolve(args.odoo_dir) \o <<"filestore", PyOr(target_database, source_database)>>

\* main, lines 341-349: create the target directory
R_FilestoreMkdir ==
    /\ pc = "r_filestore_restore"
    /\ made' = made \cup {target_path}
    /\ Goto("r_filestore_cmd")
    /\ UNCHANGED <<prog, extra_args, manifest,
                   args, env, log, sleeps, i, pg_isready, fs, unlinked,
                   source_database, target_database, checksum,
                   postgres_dump_to_remove>>

\* main, lines 350-359: restore <snapshot>/filestore/<source_database>
R_FilestoreRestore ==
    /\ pc = "r_filestore_cmd"
    /\ \E rc \in Outcomes :
         RestoreMustSucceed("snapshot restore filestore", rc, target_path,
                            source_database, "r_disconnect")
    /\ RestoreFrame

\* main, lines 361-364: repository disconnect
R_Disconnect ==
    /\ pc = "r_disconnect"
    /\ \E rc \in Outcomes :
         RestoreMustSucceed("repository disconnect", rc, <<>>, "", "r_done")
    /\ RestoreFrame

\* main, lines 366-367
R_Done ==
    /\ pc = "r_done"
    /\ sys_exit(0)
    /\ UNCHANGED <<prog, extra_args, manifest,
                   made, args, env, log, sleeps, i, pg_isready, fs, unlinked,
                   source_database, target_database, checksum,
                   postgres_dump_to_remove>>

RestoreNext ==
    \/ R_Flags
    \/ R_Target
    \/ R_EnvCheck
    \/ R_Password
    \/ R_Connect
    \/ R_RestoreDb
    \/ R_SkipDb
    \/ R_Detect
    \/ R_DumpExists
    \/ R_Verify
    \/ R_PgIsReady
    \/ R_ReadyCheck
    \/ R_PgRestore
    \/ R_Cleanup
    \/ R_FilestoreCheck
    \/ R_FilestoreMkdir
    \/ R_FilestoreRestore
    \/ R_Disconnect
    \/ R_Done

----------------------------------------------------------------------------
(* src/odoo_kopia_snapshot/list.py *)

ListArgs ==
    [all : BOOLEAN,
     json : BOOLEAN,
     tags : {<<>>, <<"env:prod">>, <<"env:prod", "app:odoo">>},
     max_results : {<<>>, <<5>>}]

InitList ==
    /\ prog = "list"
    /\ pc = "l_password"
    /\ args \in ListArgs
    /\ env \in EnvChoices
    /\ log = <<>>
    /\ sleeps = <<>>
    /\ i = 1
    /\ pg_isready = FALSE
    /\ fs = EmptyDir
    /\ unlinked = {}
    /\ made = {}
    /\ extra_args = NONE
    /\ manifest = NONE
    /\ exit_code = -1
    /\ raised = FALSE
    /\ source_database = NONE
    /\ target_database = NONE
    /\ checksum = "none"
    /\ postgres_dump_to_remove = NONE

ListFrame ==
    UNCHANGED <<prog, extra_args, manifest,
                made, args, env, sleeps, i, pg_isready, fs, unlinked,
                source_database, target_database, checksum,
                postgres_dump_to_remove>>

\* main, lines 105-111: the KOPIA_PASSWORD fallback
L_Password ==
    /\ pc = "l_password"
    /\ env' = IF ~Truthy(environ_get("KOPIA_PASSWORD"))
              THEN [env EXCEPT !["KOPIA_PASSWORD"] = "static-passw0rd"]
              ELSE env
    /\ Goto("l_connect")
    /\ UNCHANGED <<prog, extra_args, manifest,
                   made, args, log, sleeps, i, pg_isready, fs, unlinked,
                   source_database, target_database, checksum,
                   postgres_dump_to_remove>>

\* main, lines 130-138: connect_cmd's flags after the connect parameters
list_connect_flags == <<>>

\* main, lines 126-142: repository connect with check=False
L_Connect ==
    /\ pc = "l_connect"
    /\ \E rc \in Outcomes :
         /\ IssueFlags("repository connect", rc, <<>>, "", list_connect_flags)
         /\ LET r == utils_run_command(FALSE, rc)
            IN  IF r = "raise" THEN Uncaught
                ELSE IF r = "failed" THEN sys_exit(1)
                ELSE Goto("l_list")
    /\ ListFrame

\* main, lines 144-157: the flags of `snapshot list`
list_cmd_flags ==
    (IF args.all THEN <<(<<"--all", "">>)>> ELSE <<>>)
    \o [t \in DOMAIN args.tags |-> <<"--tags", args.tags[t]>>]
    \o (IF args.max_results # <<>>
        THEN <<(<<"--max-results", args.max_results[1]>>)>> ELSE <<>>)
    \o (IF args.json THEN <<(<<"--json", "">>)>> ELSE <<>>)

\* main, lines 159-166: snapshot list with check=True (its output is printed
\* when --json is given)
L_List ==
    /\ pc = "l_list"
    /\ \E rc \in Outcomes :
         /\ IssueFlags("snapshot list", rc, <<>>, "", list_cmd_flags)
         /\ IF utils_run_command(TRUE, rc) = "raise"
            THEN Uncaught
            ELSE Goto("l_disconnect")
    /\ ListFrame

L_Disconnect_MustSucceed ==
    /\ pc = "l_disconnect"
    /\ \E rc \in Outcomes :
         /\ Issue("repository disconnect", rc, <<>>, "")
         /\ IF utils_run_command(TRUE, rc) = "raise"
            THEN Uncaught
            ELSE sys_exit(0)
    /\ ListFrame

\* main, lines 168-173: repository disconnect with check=False, then exit 0
L_Disconnect ==
    /\ pc = "l_disconnect"
    /\ \E rc \in Outcomes :
         /\ Issue("repository disconnect", rc, <<>>, "")
         /\ IF utils_run_command(FALSE, rc) = "raise"
            THEN Uncaught
            ELSE sys_exit(0)
    /\ ListFrame

ListNext ==
    \/ L_Password
    \/ L_Connect
    \/ L_List
    \/ L_Disconnect

----------------------------------------------------------------------------

Init == InitBackup \/ InitRestore \/ InitList

Next == BackupNext \/ RestoreNext \/ ListNext

Spec == Init /\ [][Next]_vars

----------------------------------------------------------------------------
(* src/odoo_kopia_snapshot/kube.py and the two manifest generators,         *)
(* generate_restore_job.py and generate_backup_cronjob.py.  A string the    *)
(* code takes apart is the sequence of its characters; a string it only     *)
(* passes on is an atom.                                                    *)

\* longest --env, --env-from-secret or --env-from-configmap entry, in
\* characters
MaxEntryLen == 5

\* longest --secret-ref and --configmap-ref list
MaxRefs == 2

\* longest --restore-args or --backup-args string, in characters
MaxArgLen == 3

StringsUpTo(chars, n) == UNION {[1 .. k -> chars] : k \in 0 .. n}

SeqsUpTo(S, n) == UNION {[1 .. k -> S] : k \in 0 .. n}

\* str.find(sep) from position k on, 1-based; 0 when sep does not occur
RECURSIVE find(_, _, _)
find(s, sep, k) ==
    IF k > Len(s) THEN 0
    ELSE IF s[k] = sep THEN k
    ELSE find(s, sep, k + 1)

RECURSIVE rfind(_, _, _)
rfind(s, sep, k) ==
    IF k = 0 THEN 0
    ELSE IF s[k] = sep THEN k
    ELSE rfind(s, sep, k - 1)

partition_Last(s, sep) ==
    LET k == rfind(s, sep, Len(s))
    IN  IF k = 0 THEN <<s, <<>>, <<>>>>
        ELSE <<SubSeq(s, 1, k - 1), <<sep>>, SubSeq(s, k + 1, Len(s))>>

\* str.partition(sep): <<head, separator, tail>> around the first sep, and
\* <<s, "", "">> when s holds no sep
partition(s, sep) ==
    LET k == find(s, sep, 1)
    IN  IF k = 0 THEN <<s, <<>>, <<>>>>
        ELSE <<SubSeq(s, 1, k - 1), <<sep>>, SubSeq(s, k + 1, Len(s))>>

\* shlex.split of a string without quotes, escapes or comments: the maximal
\* runs of non-blank characters, in order
RECURSIVE shlex_split(_)
shlex_split(s) ==
    IF s = <<>> THEN <<>>
    ELSE IF Head(s) = " " THEN shlex_split(Tail(s))
    ELSE LET k == find(s, " ", 1)
         IN  IF k = 0 THEN <<s>>
             ELSE <<SubSeq(s, 1, k - 1)>> \o shlex_split(SubSeq(s, k + 1, Len(s)))

build_env_from_ConfigMapsFirst(secret_refs, configmap_refs) ==
    [k \in DOMAIN configmap_refs |-> [configMapRef |-> [name |-> configmap_refs[k]]]]
    \o [k \in DOMAIN secret_refs |-> [secretRef |-> [name |-> secret_refs[k]]]]

\* kube.py build_env_from, lines 9-16
build_env_from(secret_refs, configmap_refs) ==
    [k \in DOMAIN secret_refs |-> [secretRef |-> [name |-> secret_refs[k]]]]
    \o [k \in DOMAIN configmap_refs |-> [configMapRef |-> [name |-> configmap_refs[k]]]]

\* build_env_vars, lines 27-29: one literal entry
env_literal(entry) ==
    LET p == partition(entry, "=")
    IN  [name |-> p[1], value |-> p[3]]

\* build_env_vars, lines 30-43: one reference entry; kind is "secretKeyRef"
\* or "configMapKeyRef"
env_reference(entry, kind) ==
    LET p == partition(entry, "=")
        r == partition(p[3], ":")
    IN  [name |-> p[1], valueFrom |-> (kind :> [name |-> r[1], key |-> r[3]])]

\* kube.py build_env_vars, lines 19-44
build_env_vars(env_literals, env_from_secret, env_from_configmap) ==
    [k \in DOMAIN env_literals |-> env_literal(env_literals[k])]
    \o [k \in DOMAIN env_from_secret |->
            env_reference(env_from_secret[k], "secretKeyRef")]
    \o [k \in DOMAIN env_from_configmap |->
            env_reference(env_from_configmap[k], "configMapKeyRef")]

build_pod_spec_AlwaysEnv(a, command, extra) ==
    LET env_from == build_env_from(a.secret_ref, a.configmap_ref)
        env_vars == build_env_vars(a.env_literals, a.env_from_secret,
                                   a.env_from_configmap)
        container == [name |-> command, image |-> a.image,
                      envFrom |-> env_from, env |-> env_vars,
                      args |-> <<command>> \o extra]
    IN  [restartPolicy |-> "Never", containers |-> <<container>>]

\* kube.py build_pod_spec, lines 189-222.  The volume mounts, resources,
\* security context and volumes are fixed by the defaults and are left out.
build_pod_spec(a, command, extra) ==
    LET env_from == build_env_from(a.secret_ref, a.configmap_ref)
        env_vars == build_env_vars(a.env_literals, a.env_from_secret,
                                   a.env_from_configmap)
        c0 == [name |-> command, image |-> a.image]
        c1 == IF env_from # <<>> THEN ("envFrom" :> env_from) @@ c0 ELSE c0
        c2 == IF env_vars # <<>> THEN ("env" :> env_vars) @@ c1 ELSE c1
        container == ("args" :> (<<command>> \o extra)) @@ c2
    IN  [restartPolicy |-> "Never", containers |-> <<container>>]

EntryChars == {"a", "=", ":"}

Entries == StringsUpTo(EntryChars, MaxEntryLen)

ArgChars == {"x", "-", " "}

ArgStrings == StringsUpTo(ArgChars, MaxArgLen)

SecretNames == {"s1", "s2"}

ConfigMapNames == {"c1", "c2"}

Snapshots == {<<"k", "1">>, <<"k", "2">>}

\* the options every generator takes (add_common_args, lines 105-186) that
\* bear on the container
Common(s, c, l, es, ec) ==
    [image |-> "img", secret_ref |-> s, configmap_ref |-> c,
     env_literals |-> l, env_from_secret |-> es, env_from_configmap |-> ec]

\* three slices of the inputs: one entry in any of the three env lists, any
\* two reference lists, and the plain invocation
CommonArgs ==
    UNION {{Common(s, c, l, es, ec) :
                s \in {<<>>, <<"s1">>}, c \in {<<>>, <<"c1">>},
                l \in {<<>>, <<e>>}, es \in {<<>>, <<e>>}, ec \in {<<>>, <<e>>}} :
           e \in Entries}
    \cup
    {Common(s, c, <<>>, <<>>, <<>>) :
        s \in SeqsUpTo(SecretNames, MaxRefs),
        c \in SeqsUpTo(ConfigMapNames, MaxRefs)}

PlainArgs == Common(<<>>, <<>>, <<>>, <<>>, <<>>)

\* generate_restore_job.py main, lines 11-30: the parsed namespace
RestoreJobArgs ==
    {a @@ [snapshot |-> <<"k", "1">>, restore_args |-> <<>>] : a \in CommonArgs}
    \cup
    {PlainArgs @@ [snapshot |-> k, restore_args |-> x] :
        k \in Snapshots, x \in ArgStrings}

\* generate_backup_cronjob.py main, lines 11-28: the parsed namespace
BackupCronJobArgs ==
    {a @@ [backup_args |-> <<>>] : a \in CommonArgs}
    \cup
    {PlainArgs @@ [backup_args |-> x] : x \in ArgStrings}

KubeFrame ==
    UNCHANGED <<prog, args, env, log, sleeps, i, pg_isready, fs, unlinked, made,
                source_database, target_database, checksum,
                postgres_dump_to_remove>>

InitGenerator ==
    /\ \/ prog = "generate_restore_job" /\ args \in RestoreJobArgs
       \/ prog = "generate_backup_cronjob" /\ args \in BackupCronJobArgs
    /\ pc = "g_extra_args"
    /\ env = FullEnv
    /\ log = <<>>
    /\ sleeps = <<>>
    /\ i = 1
    /\ pg_isready = FALSE
    /\ fs = EmptyDir
    /\ unlinked = {}
    /\ made = {}
    /\ exit_code = -1
    /\ raised = FALSE
    /\ source_database = NONE
    /\ target_database = NONE
    /\ checksum = "none"
    /\ postgres_dump_to_remove = NONE
    /\ extra_args = NONE
    /\ manifest = NONE

GR_ExtraArgs_SnapshotLast ==
    /\ prog = "generate_restore_job"
    /\ pc = "g_extra_args"
    /\ extra_args' = (IF args.restore_args # <<>>
                      THEN shlex_split(args.restore_args) ELSE <<>>)
                     \o <<args.snapshot>>
    /\ Goto("g_manifest")
    /\ UNCHANGED manifest
    /\ KubeFrame

\* generate_restore_job.py main, lines 32-34
GR_ExtraArgs ==
    /\ prog = "generate_restore_job"
    /\ pc = "g_extra_args"
    /\ extra_args' = <<args.snapshot>>
                     \o (IF args.restore_args # <<>>
                         THEN shlex_split(args.restore_args) ELSE <<>>)
    /\ Goto("g_manifest")
    /\ UNCHANGED manifest
    /\ KubeFrame

\* generate_restore_job.py main, lines 36-50: the Job manifest
GR_Manifest ==
    /\ prog = "generate_restore_job"
    /\ pc = "g_manifest"
    /\ manifest' =
         [apiVersion |-> "batch/v1",
          kind |-> "Job",
          spec |-> [backoffLimit |-> 0,
                    ttlSecondsAfterFinished |-> 600,
                    template |->
                        [spec |-> build_pod_spec(args, "restore", extra_args)]]]
    /\ Goto("g_dump")
    /\ UNCHANGED extra_args
    /\ KubeFrame

\* generate_backup_cronjob.py main, line 30
GB_ExtraArgs ==
    /\ prog = "generate_backup_cronjob"
    /\ pc = "g_extra_args"
    /\ extra_args' = IF args.backup_args # <<>>
                     THEN shlex_split(args.backup_args) ELSE <<>>
    /\ Goto("g_manifest")
    /\ UNCHANGED manifest
    /\ KubeFrame

\* generate_backup_cronjob.py main, lines 32-51: the CronJob manifest
GB_Manifest ==
    /\ prog = "generate_backup_cronjob"
    /\ pc = "g_manifest"
    /\ manifest' =
         [apiVersion |-> "batch/v1",
          kind |-> "CronJob",
          spec |-> [concurrencyPolicy |-> "Forbid",
                    jobTemplate |->
                        [spec |-> [backoffLimit |-> 0,
                                   template |->
                                       [spec |-> build_pod_spec(args, "backup",
                                                                extra_args)]]]]]
    /\ Goto("g_dump")
    /\ UNCHANGED extra_args
    /\ KubeFrame

\* dump_manifest (kube.py lines 225-227) prints the manifest; main returns
\* and the interpreter exits with status 0
G_Dump ==
    /\ pc = "g_dump"
    /\ sys_exit(0)
    /\ UNCHANGED <<extra_args, manifest>>
    /\ KubeFrame

GeneratorNext ==
    \/ GR_ExtraArgs
    \/ GR_Manifest
    \/ GB_ExtraArgs
    \/ GB_Manifest
    \/ G_Dump

KubeSpec == InitGenerator /\ [][GeneratorNext]_vars

----------------------------------------------------------------------------
(* Reading the history of a run. *)

Cmds(c) == {k \in DOMAIN log : log[k].cmd = c}

Issued(c) == Cmds(c) # {}

ProbeIdx == Cmds("pg_isready")

FailedProbes == {k \in ProbeIdx : log[k].rc = "exitN"}

OkProbes == {k \in ProbeIdx : log[k].rc = "exit0"}

RECURSIVE SumSeq(_)
SumSeq(q) == IF q = <<>> THEN 0 ELSE Last(q) + SumSeq(Front(q))

DumpEnabled == prog = "backup" /\ ~args.no_postgres_backup

DumpDirOutside ==
    ~is_relative_to(resolve(args.postgres_backup_dir), resolve(args.odoo_dir))

PGMissing == \E k \in PGVars : ~Truthy(env[k])

----------------------------------------------------------------------------
(* Claims. *)

\* C1: in a backup run with the database dump enabled, a dump directory
\* outside the source tree or an unset or empty PGHOST, PGPORT, PGUSER,
\* PGPASSWORD or PGDATABASE leaves the run nowhere to go but exit code 1, and
\* no external command is ever executed.
C1_PreconditionsAbortBeforeCommands ==
    (DumpEnabled /\ (DumpDirOutside \/ PGMissing)) =>
        /\ log = <<>>
        /\ pc \in {"b_flags", "b_dircheck", "b_envcheck", "exit"}
        /\ pc = "exit" => (exit_code = 1 /\ ~raised)

\* C1 witness: the dump directory is inside the tree, a PG* variable is
\* missing, and the run has exited 1.
C1_Witness ==
    /\ DumpEnabled /\ ~DumpDirOutside /\ PGMissing
    /\ pc = "exit" /\ exit_code = 1

\* C2 as stated: in every backup run, whatever the toggles, snapshot create
\* is issued only with the dump directory inside the source tree, and a run
\* violating the containment never ends with status 0.
C2_ContainmentForEveryToggle ==
    (prog = "backup" /\ DumpDirOutside) =>
        (~Issued("snapshot create") /\ exit_code # 0)

\* C2 amended: in every backup run with the database dump enabled, snapshot
\* create is issued only with the dump directory inside the source tree; a
\* run violating the containment ends with exit code 1.
C2_ContainmentWhenDumpEnabled ==
    (DumpEnabled /\ DumpDirOutside) =>
        /\ ~Issued("snapshot create")
        /\ exit_code \in {-1, 1}
        /\ pc \in {"b_flags", "b_dircheck", "exit"}

\* C2 witness: all PG* variables are set, the dump directory is outside the
\* tree, and the containment check has ended the run.
C2_Witness ==
    /\ DumpEnabled /\ DumpDirOutside /\ ~PGMissing
    /\ pc = "exit" /\ exit_code = 1

\* C3: once a pg_isready probe has succeeded after k failures (0 <= k <= 8),
\* exactly k+1 probes were made, the sleeps were 1, 2, ... k seconds (k(k+1)/2
\* in all), and the run proceeds: the next command is pg_dump (backup) or
\* pg_restore (restore).
C3_ReadinessSucceedsAfterK ==
    OkProbes # {} =>
        LET k == Cardinality(FailedProbes)
            ok == CHOOSE x \in OkProbes : TRUE
        IN  /\ k \in 0 .. 8
            /\ Cardinality(ProbeIdx) = k + 1
            /\ OkProbes = {ok}
            /\ \A f \in FailedProbes : f < ok
            /\ sleeps = [j \in 1 .. k |-> j]
            /\ 2 * SumSeq(sleeps) = k * (k + 1)
            /\ IF ok = Len(log)
               THEN pc \in {"b_readycheck", "b_pgdump", "r_readycheck", "r_pgrestore"}
               ELSE log[ok + 1].cmd = (IF prog = "backup" THEN "pg_dump" ELSE "pg_restore")

\* C3 witness: a backup whose probe failed 3 times, then succeeded; 6 seconds
\* were slept and pg_dump was issued.
C3_Witness ==
    /\ prog = "backup"
    /\ Cardinality(FailedProbes) = 3 /\ OkProbes # {}
    /\ SumSeq(sleeps) = 6
    /\ Issued("pg_dump")

\* C4: the readiness loop makes at most 9 probes, sleeping i seconds after the
\* i-th failed probe; after 9 failed probes the run issues no further command
\* and can only exit with code 1.
C4_ReadinessGivesUp ==
    /\ Cardinality(ProbeIdx) <= 9
    /\ sleeps = [j \in 1 .. Cardinality(FailedProbes) |-> j]
    /\ Cardinality(FailedProbes) = 9 =>
          /\ \A k \in DOMAIN log : k \in ProbeIdx \/ \E f \in FailedProbes : k < f
          /\ pc \in {"b_readycheck", "r_readycheck", "exit"}
          /\ pc = "exit" => (exit_code = 1 /\ ~raised)

\* C4 witness: a restore whose probe failed 9 times has exited 1.
C4_Witness ==
    /\ prog = "restore"
    /\ Cardinality(FailedProbes) = 9
    /\ sleeps = <<1, 2, 3, 4, 5, 6, 7, 8, 9>>
    /\ pc = "exit" /\ exit_code = 1

\* C5 as stated: in backup and restore a non-zero exit of `content stats` or
\* of `repository disconnect` is only logged: the run does not end with a
\* status other than 0.
C5_BestEffortStepsDoNotAbort ==
    \A k \in DOMAIN log :
        (/\ prog \in {"backup", "restore"}
         /\ log[k].cmd \in {"content stats", "repository disconnect"}
         /\ log[k].rc = "exitN")
        => (exit_code \in {-1, 0} /\ ~raised)

BackupOrder ==
    <<"pg_dump", "repository connect", "repository create", "policy set global",
      "policy set dump-dir", "snapshot create", "maintenance run",
      "content stats", "repository disconnect">>

Rank(c) == CHOOSE r \in DOMAIN BackupOrder : BackupOrder[r] = c

\* the commands of a backup run, the readiness probes left out
KLog == SelectSeq(log, LAMBDA e : e.cmd # "pg_isready")

\* entry k of KLog failed and is not the connect that create makes up for
Aborting(k) ==
    /\ KLog[k].rc # "exit0"
    /\ ~(KLog[k].cmd = "repository connect" /\ KLog[k].rc = "exitN")

\* the steps that must have been issued before step c is
Before(c) ==
    {BackupOrder[r] : r \in 1 .. (Rank(c) - 1)}
      \ ((IF args.no_postgres_backup THEN {"pg_dump"} ELSE {})
         \cup (IF args.no_kopia_maintenance THEN {"maintenance run"} ELSE {})
         \cup (IF \E k \in Cmds("repository connect") : log[k].rc = "exitN"
               THEN {} ELSE {"repository create"}))

\* C6: a backup issues pg_dump, connect[/create], policy set global, policy
\* set dump-dir, snapshot create, maintenance run (unless skipped), content
\* stats, repository disconnect in this order, each after all earlier ones
\* succeeded; a failed must-succeed step is the last command and the status is
\* non-zero; status 0 comes only after every step succeeded.
C6_BackupOrderAndAbort ==
    prog = "backup" =>
        /\ \A a, b \in DOMAIN KLog :
               a < b => Rank(KLog[a].cmd) < Rank(KLog[b].cmd)
        /\ args.no_postgres_backup => ~Issued("pg_dump")
        /\ args.no_kopia_maintenance => ~Issued("maintenance run")
        /\ \A a \in DOMAIN KLog :
               /\ \A c \in Before(KLog[a].cmd) : \E b \in 1 .. (a - 1) : KLog[b].cmd = c
               /\ Aborting(a) => (a = Len(KLog) /\ pc = "exit" /\ exit_code \notin {-1, 0})
        /\ exit_code = 0 =>
               /\ \A c \in Before("repository disconnect") \cup {"repository disconnect"} :
                      Issued(c)
               /\ \A a \in DOMAIN KLog : ~Aborting(a)

\* C6 witness: a backup with the dump enabled whose snapshot create failed has
\* ended with status 1, after pg_dump and both policy commands.
C6_Witness ==
    /\ prog = "backup"
    /\ Issued("pg_dump") /\ Issued("policy set dump-dir")
    /\ \E k \in Cmds("snapshot create") : log[k].rc = "exitN"
    /\ pc = "exit" /\ exit_code = 1

\* C7: in a backup, repository create is attempted exactly when repository
\* connect exited non-zero; a failed create ends the run with a non-zero
\* status and no policy or snapshot create command.
C7_ConnectOrCreate ==
    prog = "backup" =>
        /\ \A k \in Cmds("repository create") :
               k > 1 /\ log[k - 1].cmd = "repository connect" /\ log[k - 1].rc = "exitN"
        /\ \A k \in Cmds("repository connect") :
               /\ log[k].rc = "exit0" => ~Issued("repository create")
               /\ (log[k].rc = "exitN" /\ pc # "b_create") => Issued("repository create")
        /\ \A k \in Cmds("repository create") :
               log[k].rc # "exit0" =>
                   /\ pc = "exit" /\ exit_code \notin {-1, 0}
                   /\ ~Issued("policy set global") /\ ~Issued("policy set dump-dir")
                   /\ ~Issued("snapshot create")

\* C7 witness: connect failed, create was attempted and failed, the run ended.
C7_Witness ==
    /\ prog = "backup"
    /\ \E k \in Cmds("repository connect") : log[k].rc = "exitN"
    /\ \E k \in Cmds("repository create") : log[k].rc = "exitN"
    /\ pc = "exit"

\* C8 as stated: when a backup that dumped the database is about to issue
\* snapshot create, the dump file has its .sha256 sidecar beside it.
C8_SidecarBeforeSnapshot ==
    (prog = "backup" /\ pc = "b_snapshot" /\ postgres_dump_to_remove # NONE) =>
        fs[postgres_dump_to_remove] \in {"match", "mismatch"}

\* the restore stage has got past verify_checksum
Verified == checksum # "none"

\* C9: in a restore the checksum is verified before the restore tool: a
\* matching sidecar lets the run proceed, a mismatch ends it with code 1
\* before pg_isready and pg_restore, a missing sidecar skips the verification
\* (no sha256sum run) and lets the run proceed.
C9_ChecksumBeforeRestore ==
    prog = "restore" =>
        /\ (Issued("pg_isready") \/ Issued("pg_restore")) =>
               checksum \in {"passed", "skipped"}
        /\ (Verified /\ unlinked = {}) =>
               /\ checksum = "passed" <=> fs[source_database] = "match"
               /\ checksum = "exit1" <=> fs[source_database] = "mismatch"
               /\ checksum = "skipped" <=> fs[source_database] = "plain"
        /\ checksum = "exit1" =>
               /\ pc = "exit" /\ exit_code = 1 /\ ~raised
               /\ ~Issued("pg_isready") /\ ~Issued("pg_restore")
        /\ checksum = "skipped" <=> (Verified /\ ~Issued("sha256sum -c"))
        /\ (checksum \in {"passed", "skipped"}
            /\ log[Len(log)].cmd \in {"sha256sum -c", "snapshot restore database-backup"})
           => pc \in {"r_isready", "r_filestore", "r_filestore_restore",
                     "r_filestore_cmd", "r_disconnect"}

\* C9 witness: the sidecar did not match and the run has exited 1.
C9_Witness ==
    /\ prog = "restore"
    /\ checksum = "exit1"
    /\ fs[source_database] = "mismatch"
    /\ pc = "exit" /\ exit_code = 1

\* C10: a download-only restore never invokes pg_isready or pg_restore, never
\* deletes a file, and restores the dump and the file-store under the
\* download directory.
C10_DownloadOnlyTouchesNothing ==
    (prog = "restore" /\ args.download_only) =>
        /\ ~Issued("pg_isready") /\ ~Issued("pg_restore")
        /\ unlinked = {}
        /\ \A k \in DOMAIN log :
               log[k].cmd \in {"snapshot restore database-backup",
                               "snapshot restore filestore"} =>
                   /\ args.download_path # NoPath
                   /\ is_relative_to(log[k].path, resolve(args.download_path[1]))

\* C10 witness: a download-only restore with cleanup left enabled on the
\* command line has restored the dump and the file-store and exited 0.
C10_Witness ==
    /\ prog = "restore" /\ args.download_only
    /\ ~args.no_postgres_backup_cleanup
    /\ Issued("snapshot restore database-backup")
    /\ Issued("snapshot restore filestore")
    /\ pc = "exit" /\ exit_code = 0

\* C11 as stated: every fatal error a script reports itself, the missing
\* --download-path of a download-only restore included, ends the process with
\* exit code 1.
C11_FatalErrorsExit1 ==
    (pc = "exit" /\ ~raised /\ exit_code # 0) => exit_code = 1

MissingDownloadPath ==
    prog = "restore" /\ args.download_only /\ args.download_path = NoPath

\* C11 amended: every fatal error a script reports with sys.exit ends the
\* process with exit code 1; a download-only restore without --download-path
\* is rejected by the argument parser before any command, with exit code 2.
C11_FatalErrorsExit1ButUsage ==
    /\ (pc = "exit" /\ ~raised /\ exit_code # 0 /\ ~MissingDownloadPath) =>
           exit_code = 1
    /\ MissingDownloadPath =>
           /\ log = <<>>
           /\ pc \in {"r_flags", "exit"}
           /\ pc = "exit" => (exit_code = 2 /\ ~raised)

\* C11 witness: a download-only restore without --download-path has exited
\* with status 2.
C11_Witness ==
    /\ MissingDownloadPath
    /\ pc = "exit" /\ exit_code = 2

\* the --postgres-restore / --no-postgres-restore pair as main resolves it
\* (lines 175-176), readable from the raw flags at every position
DbRestoreRequested ==
    prog = "restore" /\ args.postgres_restore /\ ~args.no_postgres_restore

TargetUnresolvable ==
    ~Truthy(PyOr(args.target_database, env["PGDATABASE"]))

RestorePGMissing == \E k \in RESTORE_REQUIRED_PG_ENVIRON : ~Truthy(env[k])

\* C12: when a database restore is requested outside download-only mode and
\* no target database is resolvable or one of PGHOST, PGPORT, PGUSER,
\* PGPASSWORD is unset or empty, the restore exits with code 1 before any
\* external command; in download-only mode or without database restore a run
\* that ends before its first command ends only on the argument error.
C12_RestorePreconditions ==
    /\ (DbRestoreRequested /\ ~args.download_only
            /\ (TargetUnresolvable \/ RestorePGMissing)) =>
           /\ log = <<>>
           /\ pc \in {"r_flags", "r_target", "r_envcheck", "exit"}
           /\ pc = "exit" => (exit_code = 1 /\ ~raised)
    /\ (prog = "restore" /\ (args.download_only \/ ~DbRestoreRequested)
            /\ pc = "exit" /\ log = <<>>) =>
           (MissingDownloadPath /\ exit_code = 2)

\* C12 witness: a requested database restore with a resolvable target and a
\* missing connection variable has exited with code 1 before any command.
C12_Witness ==
    /\ DbRestoreRequested /\ ~args.download_only
    /\ ~TargetUnresolvable /\ RestorePGMissing
    /\ pc = "exit" /\ exit_code = 1 /\ log = <<>>

\* the restore has staged the database-backup sub-path, was given no
\* --source-database, and detect_source_database has returned or exited
Detected ==
    /\ prog = "restore"
    /\ ~Truthy(args.source_database)
    /\ \E k \in Cmds("snapshot restore database-backup") : log[k].rc = "exit0"
    /\ pc # "r_detect"

\* C13: without an explicit source database, a working directory holding
\* exactly one *.dump file yields that file's stem as the source database;
\* one holding none or several makes the restore exit with code 1 before the
\* checksum is verified and before pg_isready or pg_restore is run.
C13_AutoDetectSourceDatabase ==
    (Detected /\ unlinked = {}) =>
        IF Cardinality(dump_files) = 1
        THEN dump_files = {source_database}
        ELSE /\ pc = "exit" /\ exit_code = 1 /\ ~raised
             /\ source_database = NONE
             /\ checksum = "none"
             /\ ~Issued("sha256sum -c")
             /\ ~Issued("pg_isready")
             /\ ~Issued("pg_restore")

\* C13 witness: detection over a working directory with two dump files has
\* ended the run with code 1.
C13_Witness ==
    /\ Detected
    /\ Cardinality(dump_files) = 2
    /\ pc = "exit" /\ exit_code = 1

\* C14: every `repository connect` of the list helper carries --readonly, as
\* the restore orchestrator's connect does.
C14_ListConnectsReadOnly ==
    prog \in {"list", "restore"} =>
        \A k \in Cmds("repository connect") :
            \E f \in DOMAIN log[k].flags : log[k].flags[f][1] = "--readonly"

RcOf(c) == {log[k].rc : k \in Cmds(c)}

\* C15: in the list helper, after a successful connect and a successful
\* `snapshot list` the process exits with code 0 whether `repository
\* disconnect` exits zero or non-zero; a failed connect makes it exit with
\* code 1 without issuing `snapshot list` or `repository disconnect`.
C15_ListDisconnectBestEffort ==
    prog = "list" =>
        /\ (/\ RcOf("repository connect") = {"exit0"}
            /\ RcOf("snapshot list") = {"exit0"}
            /\ RcOf("repository disconnect") # {}
            /\ RcOf("repository disconnect") \subseteq {"exit0", "exitN"}) =>
               (pc = "exit" /\ exit_code = 0 /\ ~raised)
        /\ RcOf("repository connect") = {"exitN"} =>
               /\ pc = "exit" /\ exit_code = 1 /\ ~raised
               /\ ~Issued("snapshot list")
               /\ ~Issued("repository disconnect")

\* C15 witness: a list run whose disconnect exited non-zero has ended with
\* code 0.
C15_Witness ==
    /\ prog = "list"
    /\ RcOf("snapshot list") = {"exit0"}
    /\ RcOf("repository disconnect") = {"exitN"}
    /\ pc = "exit" /\ exit_code = 0

DumpProduced == "exit0" \in RcOf("pg_dump")

\* every command of the backup run so far exited 0, the readiness probes and
\* the tolerated connect apart, and `repository disconnect` is among them
ThroughDisconnectOk ==
    /\ "exit0" \in RcOf("repository disconnect")
    /\ \A k \in DOMAIN log :
           log[k].cmd \notin {"pg_isready", "repository connect"} =>
               log[k].rc = "exit0"

\* C16: a backup run deletes the dump file if and only if cleanup is enabled,
\* this run produced a dump file and every step through `repository
\* disconnect` succeeded; it deletes nothing else, and with cleanup disabled,
\* the dump disabled or the run aborted after the dump, the dump file produced
\* is still on disk.
C16_BackupCleanup ==
    prog = "backup" =>
        /\ unlinked # {} =>
               /\ ~args.no_postgres_backup_cleanup
               /\ ~args.no_postgres_backup
               /\ DumpProduced
               /\ ThroughDisconnectOk
               /\ unlinked = {<<env["PGDATABASE"], "dump">>}
               /\ pc = "exit" /\ exit_code = 0
        /\ (/\ ~args.no_postgres_backup_cleanup
            /\ DumpProduced
            /\ ThroughDisconnectOk
            /\ pc = "exit") =>
               (unlinked # {} /\ fs[env["PGDATABASE"]] = "absent")
        /\ (DumpProduced /\ unlinked = {}) =>
               fs[env["PGDATABASE"]] # "absent"

\* C16 witness: a backup run with cleanup disabled has finished with code 0
\* and its dump file is still on disk.
C16_Witness ==
    /\ prog = "backup"
    /\ args.no_postgres_backup_cleanup
    /\ DumpProduced
    /\ pc = "exit" /\ exit_code = 0
    /\ unlinked = {}
    /\ fs[env["PGDATABASE"]] = "plain"

DumpAndSidecar ==
    {<<source_database, "dump">>, <<source_database, "dump.sha256">>}

Restored == "exit0" \in RcOf("pg_restore")

\* C17: a restore deletes the dump file and its .sha256 sidecar, and nothing
\* else, if and only if cleanup is enabled, the run is not download-only and
\* pg_restore succeeded; when pg_restore failed or the run aborted earlier
\* the dump file and a verified sidecar are still in the working directory.
C17_RestoreCleanup ==
    prog = "restore" =>
        /\ unlinked # {} =>
               /\ unlinked = DumpAndSidecar
               /\ ~args.no_postgres_backup_cleanup
               /\ ~args.download_only
               /\ Restored
        /\ (/\ Restored
            /\ ~args.no_postgres_backup_cleanup
            /\ pc # "r_cleanup") =>
               (unlinked = DumpAndSidecar /\ fs[source_database] = "absent")
        /\ (unlinked = {} /\ Issued("pg_restore")) =>
               /\ fs[source_database] # "absent"
               /\ checksum = "passed" => fs[source_database] = "match"

\* C17 witness: pg_restore has failed in a restore with cleanup enabled and
\* the verified dump and its sidecar are still there.
C17_Witness ==
    /\ prog = "restore"
    /\ ~args.no_postgres_backup_cleanup
    /\ RcOf("pg_restore") = {"exitN"}
    /\ pc = "exit"
    /\ unlinked = {}
    /\ fs[source_database] = "match"

FilestoreRequested ==
    prog = "restore" /\ args.filestore_restore /\ ~args.no_filestore_restore

\* the directory the file store belongs in: <odoo-dir>/filestore/<T>, T the
\* target database (--target-database, else PGDATABASE) when there is one and
\* the source database otherwise
ExpectedFilestoreTarget ==
    resolve(args.odoo_dir)
        \o <<"filestore",
             PyOr(PyOr(args.target_database, env["PGDATABASE"]), source_database)>>

\* C18: every file-store restore command restores the snapshot sub-path
\* filestore/<source database> into <odoo-dir>/filestore/<T>, a directory the
\* run has created before it issues the command; a run that knows no source
\* database exits with code 1 without issuing the file-store restore.
C18_FilestoreNaming ==
    prog = "restore" =>
        /\ \A k \in Cmds("snapshot restore filestore") :
               /\ Truthy(source_database)
               /\ log[k].name = source_database
               /\ log[k].path = ExpectedFilestoreTarget
               /\ log[k].path \in made
        /\ pc = "r_filestore_cmd" => ExpectedFilestoreTarget \in made
        /\ (/\ FilestoreRequested
            /\ ~DbRestoreRequested
            /\ ~Truthy(args.source_database)) =>
               /\ ~Issued("snapshot restore filestore")
               /\ pc = "exit" => exit_code # 0
               /\ (pc = "exit" /\ "exit0" \in RcOf("repository connect")) =>
                      (exit_code = 1 /\ ~raised)

\* C18 witness: with no target database resolvable, the file store of the
\* source database has been restored into the directory named after the
\* source.
C18_Witness ==
    /\ prog = "restore"
    /\ ~Truthy(PyOr(args.target_database, env["PGDATABASE"]))
    /\ \E k \in Cmds("snapshot restore filestore") :
           /\ log[k].rc = "exit0"
           /\ log[k].path = resolve(args.odoo_dir) \o <<"filestore", source_database>>
           /\ log[k].path \in made

\* the run_command call sites that pass check=False: the three connects
\* (backup.py:280, restore.py:249, list.py:139) and the list helper's
\* disconnect (list.py:171)
ReturnStatusSite(k) ==
    \/ log[k].cmd = "repository connect"
    \/ prog = "list" /\ log[k].cmd = "repository disconnect"

\* C19: every run_command call runs its program exactly once; exit status 0
\* gives a success result; a non-zero status raises under check=True and gives
\* a failure result without raising under check=False.
C19_CommandRunnerPolicy ==
    /\ \A c \in {log[k].cmd : k \in DOMAIN log} \ {"pg_isready"} :
           Cardinality(Cmds(c)) = 1
    /\ Cardinality(ProbeIdx) =
           Len(sleeps) + Cardinality({k \in ProbeIdx : log[k].rc # "exitN"})
    /\ \A k \in DOMAIN log :
           log[k].cmd # "sha256sum -c" =>
               /\ (log[k].rc = "exit0" /\ k = Len(log)) => ~raised
               /\ (log[k].rc = "exit0" /\ k \in ProbeIdx) => pg_isready
               /\ (log[k].rc = "exitN" /\ ReturnStatusSite(k)) =>
                      /\ k = Len(log) => ~raised
                      /\ (prog = "backup" /\ k < Len(log)) =>
                             log[k + 1].cmd = "repository create"
                      /\ (prog # "backup" /\ log[k].cmd = "repository connect") =>
                             (k = Len(log) /\ pc = "exit" /\ exit_code = 1)
                      /\ (prog = "list" /\ log[k].cmd = "repository disconnect") =>
                             (pc = "exit" /\ exit_code = 0)
               /\ (/\ log[k].rc = "exitN"
                   /\ ~ReturnStatusSite(k)
                   /\ k \notin ProbeIdx) =>
                      (k = Len(log) /\ raised /\ pc = "exit" /\ exit_code = 1)

\* C19 witness: a backup whose connect (check=False) returned a failure and
\* whose `repository create` (check=True) then raised.
C19_Witness ==
    /\ prog = "backup"
    /\ RcOf("repository connect") = {"exitN"}
    /\ RcOf("repository create") = {"exitN"}
    /\ raised /\ pc = "exit"

\* the commands that are not kopia's: the PostgreSQL tools and sha256sum
NonKopia == {"pg_isready", "pg_dump", "pg_restore", "sha256sum -c"}

KopiaIssued == \E k \in DOMAIN log : log[k].cmd \notin NonKopia

\* no kopia command has run with an unset or empty KOPIA_PASSWORD
KopiaHasPassword == KopiaIssued => Truthy(env["KOPIA_PASSWORD"])

\* the environment changes only by installing the default over an unset or
\* empty KOPIA_PASSWORD, before the first kopia command
OnlyDefaultInstalled ==
    env' # env =>
        /\ ~Truthy(env["KOPIA_PASSWORD"])
        /\ env' = [env EXCEPT !["KOPIA_PASSWORD"] = "static-passw0rd"]
        /\ ~KopiaIssued
        /\ log' = log

\* C20: in backup, restore and list every kopia command runs with a
\* non-empty KOPIA_PASSWORD; the default 'static-passw0rd' is installed before
\* the first kopia command only when the variable is unset or empty, and a
\* value that was set is never overwritten.
C20_PasswordFallback ==
    /\ []KopiaHasPassword
    /\ [][OnlyDefaultInstalled]_vars

\* C20 witness: a kopia command has run under the installed default.
C20_Witness ==
    /\ KopiaIssued
    /\ env["KOPIA_PASSWORD"] = "static-passw0rd"

----------------------------------------------------------------------------
(* Claims about the manifest generators, checked under KubeSpec. *)

\* main has built its manifest
ManifestBuilt ==
    /\ prog \in {"generate_restore_job", "generate_backup_cronjob"}
    /\ pc \in {"g_dump", "exit"}

\* the single container of the pod template, once the manifest is built
Container ==
    IF prog = "generate_restore_job"
    THEN manifest.spec.template.spec.containers[1]
    ELSE manifest.spec.jobTemplate.spec.template.spec.containers[1]

HasChar(s, ch) == \E k \in DOMAIN s : s[k] = ch

\* an entry of the form NAME=SOURCE:KEY: an '=' with a ':' somewhere after it
RefForm(e) ==
    \E j1 \in DOMAIN e : \E j2 \in DOMAIN e :
        j1 < j2 /\ e[j1] = "=" /\ e[j2] = ":"

\* the {name, key} dict under the single key of an item's valueFrom
KeyRef(item) ==
    item.valueFrom[CHOOSE kind \in DOMAIN item.valueFrom : TRUE]

\* C21: in the env list of a built manifest every entry is split on its first
\* '=' into name and value or reference, every secret and config-map
\* reference on its first ':' into source name and key, and for an entry
\* NAME=SOURCE:KEY the string name + '=' + source + ':' + key is the entry.
C21_EnvVarsSplitAndRoundTrip ==
    ManifestBuilt =>
        LET out == IF "env" \in DOMAIN Container THEN Container.env ELSE <<>>
            nl == Len(args.env_literals)
            ns == Len(args.env_from_secret)
            inputs == args.env_literals \o args.env_from_secret
                          \o args.env_from_configmap
        IN  /\ Len(out) = Len(inputs)
            /\ \A k \in DOMAIN out :
                   LET e == inputs[k]
                       item == out[k]
                   IN  /\ ~HasChar(item.name, "=")
                       /\ IF k <= nl
                          THEN /\ DOMAIN item = {"name", "value"}
                               /\ IF HasChar(e, "=")
                                  THEN item.name \o <<"=">> \o item.value = e
                                  ELSE item.name = e /\ item.value = <<>>
                          ELSE /\ DOMAIN item = {"name", "valueFrom"}
                               /\ DOMAIN item.valueFrom =
                                      {IF k <= nl + ns THEN "secretKeyRef"
                                       ELSE "configMapKeyRef"}
                               /\ ~HasChar(KeyRef(item).name, ":")
                               /\ ~HasChar(e, "=") =>
                                      (item.name = e /\ KeyRef(item).name = <<>>
                                           /\ KeyRef(item).key = <<>>)
                               /\ RefForm(e) =>
                                      item.name \o <<"=">> \o KeyRef(item).name
                                          \o <<":">> \o KeyRef(item).key = e

\* C21 witness: a manifest built from the secret reference a==:a, whose
\* reference part itself holds an '='.
C21_Witness ==
    /\ ManifestBuilt
    /\ args.env_from_secret = <<(<<"a", "=", "=", ":", "a">>)>>
    /\ Len(Container.env) >= 1

\* C22: the envFrom list holds one entry per name, the secrets first and
\* then the config maps, each group in input order, a secret s as
\* {secretRef: {name: s}} and a config map c as {configMapRef: {name: c}}; its
\* length is the sum of the two input lengths and two empty lists give the
\* empty list.
C22_EnvFromOrderAndShape ==
    ManifestBuilt =>
        LET out == IF "envFrom" \in DOMAIN Container
                   THEN Container.envFrom ELSE <<>>
            S == args.secret_ref
            C == args.configmap_ref
        IN  /\ Len(out) = Len(S) + Len(C)
            /\ \A k \in DOMAIN S :
                   /\ DOMAIN out[k] = {"secretRef"}
                   /\ out[k].secretRef = [name |-> S[k]]
            /\ \A k \in DOMAIN C :
                   /\ DOMAIN out[Len(S) + k] = {"configMapRef"}
                   /\ out[Len(S) + k].configMapRef = [name |-> C[k]]
            /\ (S = <<>> /\ C = <<>>) => build_env_from(S, C) = <<>>

\* C22 witness: a manifest built from two secrets and two config maps, each
\* pair given in descending order.
C22_Witness ==
    /\ ManifestBuilt
    /\ args.secret_ref = <<"s2", "s1">>
    /\ args.configmap_ref = <<"c2", "c1">>
    /\ Len(Container.envFrom) = 4

\* C23: the container has the key envFrom if and only if a secret or
\* config-map reference was given, and the key env if and only if a literal,
\* secret-key or config-map-key entry was given; a key that is present holds a
\* non-empty list.
C23_EnvKeysOnlyWhenNonEmpty ==
    ManifestBuilt =>
        /\ "envFrom" \in DOMAIN Container <=>
               (args.secret_ref # <<>> \/ args.configmap_ref # <<>>)
        /\ "env" \in DOMAIN Container <=>
               \/ args.env_literals # <<>>
               \/ args.env_from_secret # <<>>
               \/ args.env_from_configmap # <<>>
        /\ "envFrom" \in DOMAIN Container => Container.envFrom # <<>>
        /\ "env" \in DOMAIN Container => Container.env # <<>>

\* C23 witness: a manifest built with all five lists empty, whose container
\* has neither key.
C23_Witness ==
    /\ ManifestBuilt
    /\ args.secret_ref = <<>> /\ args.configmap_ref = <<>>
    /\ args.env_literals = <<>> /\ args.env_from_secret = <<>>
    /\ args.env_from_configmap = <<>>
    /\ DOMAIN Container = {"name", "image", "args"}

\* the pod template's spec, once the manifest is built
PodSpec ==
    IF prog = "generate_restore_job"
    THEN manifest.spec.template.spec
    ELSE manifest.spec.jobTemplate.spec.template.spec

Subcommand == IF prog = "generate_restore_job" THEN "restore" ELSE "backup"

\* C24: the pod has a single container, named after the subcommand, whose
\* argument list is the subcommand followed by the extra arguments in their
\* order; in a restore job the snapshot identifier comes right after
\* 'restore' and the caller's restore arguments follow it.
C24_ContainerArgs ==
    ManifestBuilt =>
        /\ Len(PodSpec.containers) = 1
        /\ Container.name = Subcommand
        /\ Container.args = <<Subcommand>> \o extra_args
        /\ prog = "generate_restore_job" =>
               /\ Container.args[1] = "restore"
               /\ Container.args[2] = args.snapshot
               /\ SubSeq(Container.args, 3, Len(Container.args)) =
                      shlex_split(args.restore_args)
        /\ prog = "generate_backup_cronjob" =>
               /\ Container.args[1] = "backup"
               /\ Tail(Container.args) = shlex_split(args.backup_args)

\* C24 witness: a restore job built with the restore arguments "x -".
C24_Witness ==
    /\ ManifestBuilt
    /\ prog = "generate_restore_job"
    /\ args.restore_args = <<"x", " ", "-">>
    /\ Container.args = <<"restore", args.snapshot, <<"x">>, <<"-">>>>

----------------------------------------------------------------------------
(* Claims about the order of a restore run, checked under Spec. *)

\* position in the log of the only execution of command c
At(c) == CHOOSE k \in Cmds(c) : TRUE

Ok(c) == RcOf(c) = {"exit0"}

\* C25: a restore issues no `snapshot restore` unless its connect succeeded
\* (a failed connect exits 1); with both restores requested the file-store
\* restore is issued only after the dump restore, the checksum verification
\* and, unless download-only, pg_restore have succeeded, in that order;
\* `repository disconnect` comes after every requested restore and is the
\* last command, and exit code 0 is reached only after it succeeded.
C25_RestoreStepOrder ==
    prog = "restore" =>
        /\ (\/ Issued("snapshot restore database-backup")
            \/ Issued("snapshot restore filestore")) =>
               (log[1].cmd = "repository connect" /\ log[1].rc = "exit0")
        /\ RcOf("repository connect") = {"exitN"} =>
               (Len(log) = 1 /\ pc = "exit" /\ exit_code = 1)
        /\ (DbRestoreRequested /\ Issued("snapshot restore filestore")) =>
               /\ Ok("snapshot restore database-backup")
               /\ At("snapshot restore database-backup")
                      < At("snapshot restore filestore")
               /\ checksum \in {"passed", "skipped"}
               /\ Issued("sha256sum -c") =>
                      /\ Ok("sha256sum -c")
                      /\ At("snapshot restore database-backup") < At("sha256sum -c")
                      /\ At("sha256sum -c") < At("snapshot restore filestore")
               /\ ~args.download_only =>
                      /\ Ok("pg_restore")
                      /\ \A k \in Cmds("sha256sum -c") : k < At("pg_restore")
                      /\ At("snapshot restore database-backup") < At("pg_restore")
                      /\ At("pg_restore") < At("snapshot restore filestore")
        /\ Issued("repository disconnect") =>
               /\ At("repository disconnect") = Len(log)
               /\ DbRestoreRequested =>
                      /\ Ok("snapshot restore database-backup")
                      /\ ~args.download_only => Ok("pg_restore")
               /\ FilestoreRequested => Ok("snapshot restore filestore")
        /\ (pc = "exit" /\ exit_code = 0) => Ok("repository disconnect")

\* C25 witness: a live restore of database and file store has run pg_restore,
\* then the file-store restore, then the disconnect, and exited 0.
C25_Witness ==
    /\ prog = "restore"
    /\ DbRestoreRequested /\ FilestoreRequested /\ ~args.download_only
    /\ Ok("pg_restore") /\ Ok("snapshot restore filestore")
    /\ Ok("repository disconnect")
    /\ pc = "exit" /\ exit_code = 0

\* a command whose non-zero status the caller tolerates: a readiness probe,
\* or the connect of a backup (which falls back to `repository create`)
Tolerated(k) ==
    \/ log[k].cmd = "pg_isready" /\ log[k].rc = "exitN"
    \/ prog = "backup" /\ log[k].cmd = "repository connect" /\ log[k].rc = "exitN"

\* C26: a backup or restore issues `repository disconnect` at most once, as
\* its last command, and only when every command before it succeeded or was
\* tolerated, the database became ready if it was probed and the checksum
\* did not fail; a run that ends with sys.exit on a failure never issued it,
\* and a run that raised after issuing it raised on the disconnect itself.
C26_DisconnectOnlyOnSuccess ==
    prog \in {"backup", "restore"} =>
        /\ Cardinality(Cmds("repository disconnect")) <= 1
        /\ Issued("repository disconnect") =>
               /\ At("repository disconnect") = Len(log)
               /\ \A k \in 1 .. (Len(log) - 1) :
                      log[k].rc = "exit0" \/ Tolerated(k)
               /\ Issued("pg_isready") => OkProbes # {}
               /\ checksum # "exit1"
        /\ (pc = "exit" /\ exit_code # 0 /\ ~raised) =>
               ~Issued("repository disconnect")
        /\ \A k \in DOMAIN log :
               (log[k].rc # "exit0" /\ ~Tolerated(k)
                    /\ log[k].cmd # "repository disconnect") =>
                   ~Issued("repository disconnect")

\* C26 witness: a restore whose connect succeeded and whose pg_restore failed
\* has ended without a disconnect.
C26_Witness ==
    /\ prog = "restore"
    /\ Ok("repository connect")
    /\ RcOf("pg_restore") = {"exitN"}
    /\ pc = "exit" /\ exit_code = 1
    /\ ~Issued("repository disconnect")

\* the restore was given --source-database, has staged the database-backup
\* sub-path and is past the existence check of lines 277-280
ExplicitSourceChecked ==
    /\ prog = "restore"
    /\ Truthy(args.source_database)
    /\ Ok("snapshot restore database-backup")
    /\ pc \notin {"r_detect", "r_dump_exists"}

\* C27: with --source-database given, a missing <source database>.dump in
\* the working directory ends the restore with code 1 before the checksum
\* verification, pg_isready and pg_restore, whatever other dump files are
\* there; pg_restore only ever runs on a dump file that existed at the check.
C27_ExplicitSourceDumpMustExist ==
    /\ (ExplicitSourceChecked /\ unlinked = {}) =>
           IF fs[args.source_database] = "absent"
           THEN /\ pc = "exit" /\ exit_code = 1 /\ ~raised
                /\ checksum = "none"
                /\ ~Issued("sha256sum -c")
                /\ ~Issued("pg_isready")
                /\ ~Issued("pg_restore")
           ELSE source_database = args.source_database
    /\ prog = "restore" =>
           \A k \in Cmds("pg_restore") :
               /\ log[k].name = source_database
               /\ \/ fs[log[k].name] # "absent"
                  \/ <<log[k].name, "dump">> \in unlinked

\* C27 witness: --source-database db1 was given, the working directory holds
\* only db2.dump, and the run has exited 1.
C27_Witness ==
    /\ ExplicitSourceChecked
    /\ args.source_database = "db1"
    /\ fs["db1"] = "absent" /\ fs["db2"] = "plain"
    /\ pc = "exit" /\ exit_code = 1

====
